---- MODULE Spec2Model ----
(***************************************************************************)
(* Model of orbus::serial_controller (src/src/hardware/serial_controller   *)
(* .cpp): the pending queue list_send and its mutex, the callback hashmap, *)
(* the request/reply round trip (sendSerialPacket, writePacket,            *)
(* readPacket, parse_packet) and the connection life cycle (start, stop).  *)
(* Every public entry point is a sequence of steps of a calling thread;    *)
(* the board and the serial line are the environment.                      *)
(***************************************************************************)
EXTENDS Integers, Sequences, FiniteSets, TLC

\* ------------------------------------------------------------------ bounds
MaxPackets == 2     \* packets appended to list_send over one run
MaxReg == 2         \* addCallback calls over one run
MaxSends == 2       \* sendList, isAlive and start calls over one run of one thread
MaxStops == 1       \* stop() and resetList() calls over one run
DispatchSends == 1  \* the same, over one run that registers handlers
RetrySends == 2     \* the same, over one run that starts with the port open
ConcSends == 2      \* the same, over one run of two threads
ConcPackets == 2    \* packets appended over one run of two threads
MaxFrameLen == 9    \* capacity of one transmitted frame, in bytes
MaxCalls == 3       \* handler invocations recorded per round trip
MaxRxLen == 10      \* capacity of one received frame, in bytes
ChunkLen == 3       \* bytes of a reply the board emits first when it splits it
MaxInfos == 3       \* sub-packets of one reply recorded as parse_packet walks it
MaxRetries == 3     \* the largest maxRetries a sendSync is called with
SyncSends == 1      \* sendSync calls over one run
MaxBatch == 2       \* descriptors in one encoded batch
FramingReg == 1     \* addCallback calls over one run that receives bad frames
LockPackets == 2    \* packets appended over one run of two threads with a handler
LockSends == 1      \* sendList calls over one run of two threads with a handler

\* --------------------------------------------------------------- constants
SERIAL_OK == "SERIAL_OK"
SERIAL_EMPTY == "SERIAL_EMPTY"
SERIAL_BUFFER_FULL == "SERIAL_BUFFER_FULL"
SERIAL_TIMEOUT == "SERIAL_TIMEOUT"
SERIAL_EXCEPTION == "SERIAL_EXCEPTION"
SERIAL_IOEXCEPTION == "SERIAL_IOEXCEPTION"

T1 == "t1"
T2 == "t2"
Threads == {T1, T2}
NoThread == "none"

NoHandler == "none"
Handlers == {"h1", "h2"}
Types == {0, 1, 2}

HEADER_SYNC == 35
LNG_HEAD_INFORMATION_PACKET == 4

\* Values an indeterminate byte (uninitialised or stale memory) may take.
IndetBytes == {0, 1, 4}

\* A byte of info that was not copied from the frame, in the record of a walk.
Indeterminate == "indeterminate"

\* ----------------------------------------------------------- sub-packets
\* packet_information_t: the self-length, the category ("hashmap type"), the
\* option, the command, then the payload.
Packet(l, ty, o, c, m) == [length |-> l, type |-> ty, option |-> o, command |-> c, message |-> m]

\* CREATE_PACKET_RESPONSE(cmd, hash, opt): a sub-packet without payload.
CREATE_PACKET_RESPONSE(cmd, hash, opt) == Packet(LNG_HEAD_INFORMATION_PACKET, hash, opt, cmd, <<>>)

PACKET_REQUEST == 82

\* The bytes a sub-packet occupies in a frame: memcpy of its first `length`
\* bytes.
PacketBytes(p) == <<p.length, p.type, p.option, p.command>> \o p.message

RECURSIVE Flatten(_)
Flatten(ps) == IF ps = <<>> THEN <<>> ELSE PacketBytes(Head(ps)) \o Flatten(Tail(ps))

\* encoder(&packet, list, n): copies sub-packets into the frame while they
\* fit and returns how many it copied.
RECURSIVE encoderFrom(_, _)
encoderFrom(ps, room) ==
    IF ps = <<>> \/ Head(ps).length > room THEN 0
    ELSE 1 + encoderFrom(Tail(ps), room - Head(ps).length)

encoder(ps) == encoderFrom(ps, MaxFrameLen)

\* The buffer encoder leaves in the frame: the sub-packets it copied, one
\* after the other.
encoderBuffer(ps) == Flatten(SubSeq(ps, 1, encoder(ps)))

\* pkg_checksum: the trailing byte of a frame.
RECURSIVE SumBytes(_)
SumBytes(bs) == IF bs = <<>> THEN 0 ELSE (Head(bs) + SumBytes(Tail(bs))) % 256

\* build_pkg: header, length, data, checksum.
build_pkg(data) == <<HEADER_SYNC, Len(data)>> \o data \o <<SumBytes(data)>>

\* ------------------------------------------------------------------ state
VARIABLES
    hashmap,      \* category -> handler, NoHandler when unbound
    list_send,    \* the pending queue
    mMutex,       \* the thread holding mMutex, or NoThread
    mStatus,      \* serial_status_t
    mStopping,    \* the stop flag
    isOpen,       \* mSerial.isOpen()
    rxBuf,        \* bytes received by the port and not read yet
    dec,          \* the streaming decoder: state, declared length, bytes so far
    boardOut,     \* bytes of a reply the board has not emitted yet
    owed,         \* requests written and not answered by the board yet
    pc, op, batch, receive, idx, ret, calls, ev,   \* per calling thread
    infos,        \* per calling thread: the sub-packets parse_packet copied into info
    tries,        \* per calling thread: how each attempt of a sendSync ended
    stale,        \* per calling thread: what of the bytes received before its write is still unread
    txCount,      \* per packet id: how many frames that reached the wire held it
    nextId, nReg, nSends, nStops,
    quota,        \* how many calls of each kind one run makes
    first,        \* category -> the handler of the first addCallback call for it
    rejected,     \* the <<category, handler>> pairs addCallback was refused for
    lastFailed,   \* the batch of the last sendList that timed out, <<>> once the queue changed
    lastSend      \* the result and batch of the last sendList, while the queue was not touched since

vars == <<hashmap, list_send, mMutex, mStatus, mStopping, isOpen, rxBuf, dec,
          boardOut, owed, pc, op, batch, receive, idx, ret, calls, ev,
          infos, tries, stale, txCount, nextId, nReg, nSends, nStops, quota, first, rejected,
          lastFailed, lastSend>>

shared == <<hashmap, list_send, mMutex, mStatus, mStopping, isOpen>>
line == <<rxBuf, dec, boardOut, owed>>
counters == <<txCount, nextId, nReg, nSends, nStops, quota>>
history == <<first, rejected, lastFailed, lastSend>>

Upd(f, t, v) == [f EXCEPT ![t] = v]

Ids == 1..(MaxPackets + ConcPackets)

DecIdle == [st |-> "header", len |-> 0, buf |-> <<>>]

\* No byte received before the write of the round trip is left: len counts
\* such bytes at the head of rxBuf, dec tells that the frame the decoder is
\* accumulating began with such a byte.
NoStale == [len |-> 0, dec |-> FALSE]

\* No sendSync is running: no attempt is allowed and none has ended.
NoTries == [max |-> 0, ends |-> <<>>]

\* No sendList has finished since the queue was last appended to or reset.
NoSend == [done |-> FALSE, ret |-> FALSE, batch |-> <<>>]

\* watch: the run records in stale what was unread at each write.
Quota(p, r, s, h) == [packets |-> p, reg |-> r, sends |-> s, stops |-> h, watch |-> FALSE]

\* The state of a controller whose port is open or not, with no call running.
Quiet(open, stopping, q) ==
    /\ hashmap = [ty \in Types |-> NoHandler]
    /\ list_send = <<>>
    /\ mMutex = NoThread
    /\ mStatus = SERIAL_OK
    /\ mStopping \in stopping
    /\ isOpen = open
    /\ rxBuf = <<>>
    /\ dec = DecIdle
    /\ boardOut = <<>>
    /\ owed = 0
    /\ pc = [t \in Threads |-> "idle"]
    /\ op = [t \in Threads |-> "none"]
    /\ batch = [t \in Threads |-> <<>>]
    /\ receive = [t \in Threads |-> <<>>]
    /\ idx = [t \in Threads |-> 0]
    /\ ret = [t \in Threads |-> FALSE]
    /\ calls = [t \in Threads |-> <<>>]
    /\ infos = [t \in Threads |-> <<>>]
    /\ tries = [t \in Threads |-> NoTries]
    /\ stale = [t \in Threads |-> NoStale]
    /\ ev = [t \in Threads |-> {}]
    /\ txCount = [i \in Ids |-> 0]
    /\ nextId = 1
    /\ nReg = 0
    /\ nSends = 0
    /\ nStops = 0
    /\ quota = q
    /\ first = [ty \in Types |-> NoHandler]
    /\ rejected = {}
    /\ lastFailed = <<>>
    /\ lastSend = NoSend

\* serial_controller::serial_controller: the port is closed and mStopping is
\* not initialised.
Init == Quiet(FALSE, BOOLEAN, Quota(MaxPackets, 0, MaxSends, MaxStops))

local == <<pc, op, batch, receive, idx, ret, calls, ev, infos, tries, stale>>

\* ---------------------------------------------------------------- decoder
\* decode_pkgs: one received byte. SCANNING is "header", ACCUMULATING is
\* "length" then "data"; done is TRUE on the byte that completes a frame.
decode_pkgs(d, b) ==
    CASE d.st = "header" ->
            [dec |-> IF b = HEADER_SYNC THEN [d EXCEPT !.st = "length"] ELSE DecIdle,
             done |-> FALSE, frame |-> <<>>]
      [] d.st = "length" ->
            [dec |-> IF b > MaxRxLen THEN DecIdle ELSE [st |-> "data", len |-> b, buf |-> <<>>],
             done |-> FALSE, frame |-> <<>>]
      [] OTHER ->
            IF Len(d.buf) = d.len
            THEN [dec |-> DecIdle, done |-> (b = SumBytes(d.buf)),
                  frame |-> IF b = SumBytes(d.buf) THEN d.buf ELSE <<>>]
            ELSE [dec |-> [d EXCEPT !.buf = Append(d.buf, b)], done |-> FALSE, frame |-> <<>>]

\* The loop of readPacket over one chunk: feeds bytes until decode_pkgs
\* reports a frame; the bytes of the chunk after that one are dropped.
RECURSIVE FeedChunk(_, _)
FeedChunk(d, bs) ==
    IF bs = <<>> THEN [dec |-> d, done |-> FALSE, frame |-> <<>>]
    ELSE LET r == decode_pkgs(d, Head(bs))
         IN  IF r.done THEN r ELSE FeedChunk(r.dec, Tail(bs))

\* Where in the chunk bs the frame began that the decoder completes, or is
\* still accumulating at the end of the chunk: the position of its first
\* byte, h when it began before the chunk (k is the position of Head(bs)).
RECURSIVE FrameStart(_, _, _, _)
FrameStart(d, bs, k, h) ==
    IF bs = <<>> THEN h
    ELSE LET r == decode_pkgs(d, Head(bs))
             h2 == IF d.st = "header" THEN k ELSE h
         IN  IF r.done THEN h2 ELSE FrameStart(r.dec, Tail(bs), k + 1, h2)

\* The frame that began at position start of the chunk began with a byte
\* received before the write: one of the first s.len bytes of the chunk, or
\* one the decoder took before the chunk when s.dec.
FromStale(s, start) == IF start = 0 THEN s.dec ELSE start <= s.len

\* ---------------------------------------------------------------- helpers
Lookup(ty) == IF ty \in Types THEN hashmap[ty] ELSE NoHandler

Min(a, b) == IF a < b THEN a ELSE b

BatchIds(ps) == {ps[k].id : k \in 1..Len(ps)} \cap Ids

WithId(p, i) == [id |-> i] @@ p

AlivePacket == WithId(CREATE_PACKET_RESPONSE(0, 0, PACKET_REQUEST), 0)

\* Where a round trip returns to: sendList goes on to its clear and unlock,
\* sendSync to its test of the result.
Route(t) ==
    CASE op[t] = "sendList" -> "sl_finish"
      [] op[t] = "sendSync" -> "ss_next"
      [] OTHER -> "done"

\* The packets a caller appends.
SendPackets ==
    { CREATE_PACKET_RESPONSE(5, 1, PACKET_REQUEST),
      Packet(5, 2, 8, 6, <<7>>) }

\* ------------------------------------------------------------ entry points
\* addCallback without the test of hashmap.find: the last handler wins.
addCallbackOverwrite(t, callback, type) ==
    /\ pc[t] = "idle"
    /\ nReg < quota.reg
    /\ nReg' = nReg + 1
    /\ hashmap' = [hashmap EXCEPT ![type] = callback]
    /\ ret' = Upd(ret, t, TRUE)
    /\ first' = IF first[type] = NoHandler THEN [first EXCEPT ![type] = callback] ELSE first
    /\ rejected' = IF first[type] = NoHandler THEN rejected ELSE rejected \cup {<<type, callback>>}
    /\ ev' = Upd(ev, t, IF first[type] = NoHandler THEN {} ELSE {"duplicate"})
    /\ op' = Upd(op, t, "addCallback")
    /\ pc' = Upd(pc, t, "done")
    /\ UNCHANGED <<list_send, mMutex, mStatus, mStopping, isOpen, line, batch, receive, idx, tries, stale, calls, infos,
                   txCount, nextId, nSends, nStops, quota, lastFailed, lastSend>>

\* serial_controller::addCallback
addCallback(t, callback, type) ==
    /\ pc[t] = "idle"
    /\ nReg < quota.reg
    /\ nReg' = nReg + 1
    /\ IF hashmap[type] # NoHandler
       THEN /\ ret' = Upd(ret, t, FALSE)
            /\ UNCHANGED hashmap
       ELSE /\ hashmap' = [hashmap EXCEPT ![type] = callback]
            /\ ret' = Upd(ret, t, TRUE)
    /\ first' = IF first[type] = NoHandler THEN [first EXCEPT ![type] = callback] ELSE first
    /\ rejected' = IF first[type] = NoHandler THEN rejected ELSE rejected \cup {<<type, callback>>}
    /\ ev' = Upd(ev, t, IF first[type] = NoHandler THEN {} ELSE {"duplicate"})
    /\ op' = Upd(op, t, "addCallback")
    /\ pc' = Upd(pc, t, "done")
    /\ UNCHANGED <<list_send, mMutex, mStatus, mStopping, isOpen, line, batch, receive, idx, tries, stale, calls, infos,
                   txCount, nextId, nSends, nStops, quota, lastFailed, lastSend>>

\* serial_controller::addFrame(packet_information_t), up to the lock taken
addFrame(t, packet) ==
    /\ pc[t] = "idle"
    /\ nextId <= quota.packets
    /\ mMutex = NoThread
    /\ mMutex' = t
    /\ nextId' = nextId + 1
    /\ op' = Upd(op, t, "addFrame")
    /\ batch' = Upd(batch, t, <<WithId(packet, nextId)>>)
    /\ pc' = Upd(pc, t, "af_push")
    /\ UNCHANGED <<hashmap, list_send, mStatus, mStopping, isOpen, line, receive, idx, tries, stale, ret, calls, infos, ev,
                   txCount, nReg, nSends, nStops, quota, history>>

\* serial_controller::addFrame(vector<packet_information_t>), up to the lock taken
addFrameVector(t, p, q) ==
    /\ pc[t] = "idle"
    /\ nextId + 1 <= quota.packets
    /\ mMutex = NoThread
    /\ mMutex' = t
    /\ nextId' = nextId + 2
    /\ op' = Upd(op, t, "addFrame")
    /\ batch' = Upd(batch, t, <<WithId(p, nextId), WithId(q, nextId + 1)>>)
    /\ pc' = Upd(pc, t, "af_push")
    /\ UNCHANGED <<hashmap, list_send, mStatus, mStopping, isOpen, line, receive, idx, tries, stale, ret, calls, infos, ev,
                   txCount, nReg, nSends, nStops, quota, history>>

\* addFrame: the insertion and the unlock
addFramePush(t) ==
    /\ pc[t] = "af_push"
    /\ list_send' = list_send \o batch[t]
    /\ mMutex' = NoThread
    /\ ret' = Upd(ret, t, TRUE)
    /\ lastFailed' = <<>>
    /\ lastSend' = NoSend
    /\ pc' = Upd(pc, t, "done")
    /\ UNCHANGED <<hashmap, mStatus, mStopping, isOpen, line, op, batch, receive, idx, tries, stale, calls, infos, ev, counters,
                   first, rejected>>

\* serial_controller::resetList
resetList(t) ==
    /\ pc[t] = "idle"
    /\ nStops < quota.stops
    /\ mMutex = NoThread
    /\ nStops' = nStops + 1
    /\ list_send' = <<>>
    /\ lastFailed' = <<>>
    /\ lastSend' = NoSend
    /\ op' = Upd(op, t, "resetList")
    /\ ret' = Upd(ret, t, TRUE)
    /\ pc' = Upd(pc, t, "done")
    /\ UNCHANGED <<hashmap, mMutex, mStatus, mStopping, isOpen, line, batch, receive, idx, tries, stale, calls, infos, ev,
                   txCount, nextId, nReg, nSends, quota, first, rejected>>

\* sendList without mMutex.lock(): the queue goes to sendSerialFrame(vector)
\* with the mutex left as it is.
sendListUnlocked(t) ==
    /\ pc[t] = "idle"
    /\ nSends < quota.sends
    /\ nSends' = nSends + 1
    /\ op' = Upd(op, t, "sendList")
    /\ batch' = Upd(batch, t, list_send)
    /\ IF Len(list_send) = 0
       THEN /\ ret' = Upd(ret, t, TRUE)
            /\ pc' = Upd(pc, t, "sl_finish")
            /\ UNCHANGED <<mStatus, ev>>
       ELSE IF encoder(list_send) = Len(list_send)
       THEN /\ pc' = Upd(pc, t, "sp_begin")
            /\ UNCHANGED <<mStatus, ret, ev>>
       ELSE /\ mStatus' = SERIAL_BUFFER_FULL
            /\ ev' = Upd(ev, t, ev[t] \cup {"full"})
            /\ ret' = Upd(ret, t, TRUE)
            /\ pc' = Upd(pc, t, "sl_finish")
    /\ UNCHANGED <<mMutex, hashmap, list_send, mStopping, isOpen, line, receive, idx, tries, stale, calls, infos,
                   txCount, nextId, nReg, nStops, quota, history>>

\* serial_controller::sendList up to the call of sendSerialFrame(vector), and
\* sendSerialFrame(vector) up to the call of sendSerialPacket
sendList(t) ==
    /\ pc[t] = "idle"
    /\ nSends < quota.sends
    /\ mMutex = NoThread
    /\ mMutex' = t
    /\ nSends' = nSends + 1
    /\ op' = Upd(op, t, "sendList")
    /\ batch' = Upd(batch, t, list_send)
    /\ IF Len(list_send) = 0
       THEN /\ ret' = Upd(ret, t, TRUE)
            /\ pc' = Upd(pc, t, "sl_finish")
            /\ UNCHANGED <<mStatus, ev>>
       ELSE IF encoder(list_send) = Len(list_send)
       THEN /\ pc' = Upd(pc, t, "sp_begin")
            /\ UNCHANGED <<mStatus, ret, ev>>
       ELSE /\ mStatus' = SERIAL_BUFFER_FULL
            /\ ev' = Upd(ev, t, ev[t] \cup {"full"})
            /\ ret' = Upd(ret, t, TRUE)
            /\ pc' = Upd(pc, t, "sl_finish")
    /\ UNCHANGED <<hashmap, list_send, mStopping, isOpen, line, receive, idx, tries, stale, calls, infos,
                   txCount, nextId, nReg, nStops, quota, history>>

\* sendList that clears the queue whatever sendSerialFrame returned.
sendListFinishClears(t) ==
    /\ pc[t] = "sl_finish"
    /\ list_send' = <<>>
    /\ mMutex' = NoThread
    /\ lastFailed' = IF ~ret[t] /\ {"written", "timeout"} \subseteq ev[t] THEN batch[t] ELSE <<>>
    /\ lastSend' = [done |-> TRUE, ret |-> ret[t], batch |-> batch[t]]
    /\ pc' = Upd(pc, t, "done")
    /\ UNCHANGED <<hashmap, mStatus, mStopping, isOpen, line, op, batch, receive, idx, tries, stale, ret, calls, infos, ev, counters,
                   first, rejected>>

\* sendList after sendSerialFrame returned: the clear and the unlock
sendListFinish(t) ==
    /\ pc[t] = "sl_finish"
    /\ list_send' = IF ret[t] THEN <<>> ELSE list_send
    /\ mMutex' = NoThread
    /\ lastFailed' = IF ~ret[t] /\ {"written", "timeout"} \subseteq ev[t] THEN batch[t] ELSE <<>>
    /\ lastSend' = [done |-> TRUE, ret |-> ret[t], batch |-> batch[t]]
    /\ pc' = Upd(pc, t, "done")
    /\ UNCHANGED <<hashmap, mStatus, mStopping, isOpen, line, op, batch, receive, idx, tries, stale, ret, calls, infos, ev, counters,
                   first, rejected>>

\* serial_controller::isAlive and sendSerialFrame(packet_information_t) up to
\* the call of sendSerialPacket
isAlive(t) ==
    /\ pc[t] = "idle"
    /\ nSends < quota.sends
    /\ nSends' = nSends + 1
    /\ op' = Upd(op, t, "isAlive")
    /\ batch' = Upd(batch, t, <<AlivePacket>>)
    /\ pc' = Upd(pc, t, "sp_begin")
    /\ UNCHANGED <<shared, line, receive, idx, tries, stale, ret, calls, infos, ev, txCount, nextId, nReg, nStops, quota, history>>

\* serial_controller::start up to the test of isOpen
start(t) ==
    /\ pc[t] = "idle"
    /\ nSends < quota.sends
    /\ nSends' = nSends + 1
    /\ op' = Upd(op, t, "start")
    /\ IF isOpen
       THEN \* open() on an open port throws SerialException, which start does not catch
            /\ ev' = Upd(ev, t, {"threw"})
            /\ pc' = Upd(pc, t, "done")
            /\ UNCHANGED isOpen
       ELSE \E opened \in BOOLEAN :
            /\ isOpen' = opened
            /\ pc' = Upd(pc, t, IF opened THEN "st_probe" ELSE "done")
            /\ UNCHANGED ev
    /\ UNCHANGED <<hashmap, list_send, mMutex, mStatus, mStopping, line, batch, receive, idx, tries, stale, ret, calls, infos,
                   txCount, nextId, nReg, nStops, quota, history>>

\* start: mStopping = false and the call of isAlive
startProbe(t) ==
    /\ pc[t] = "st_probe"
    /\ mStopping' = FALSE
    /\ batch' = Upd(batch, t, <<AlivePacket>>)
    /\ pc' = Upd(pc, t, "sp_begin")
    /\ UNCHANGED <<hashmap, list_send, mMutex, mStatus, isOpen, line, op, receive, idx, tries, stale, ret, calls, infos, ev, counters, history>>

\* serial_controller::stop: mStopping = true
stop(t) ==
    /\ pc[t] = "idle"
    /\ nStops < quota.stops
    /\ nStops' = nStops + 1
    /\ mStopping' = TRUE
    /\ op' = Upd(op, t, "stop")
    /\ pc' = Upd(pc, t, "stop_clear")
    /\ UNCHANGED <<hashmap, list_send, mMutex, mStatus, isOpen, line, batch, receive, idx, tries, stale, ret, calls, infos, ev,
                   txCount, nextId, nReg, nSends, quota, history>>

\* stop: list_send.clear() and mSerial.close(); the function returns no value
stopClear(t) ==
    /\ pc[t] = "stop_clear"
    /\ list_send' = <<>>
    /\ isOpen' = FALSE
    /\ rxBuf' = <<>>
    /\ \E r \in BOOLEAN : ret' = Upd(ret, t, r)
    /\ pc' = Upd(pc, t, "done")
    /\ lastFailed' = <<>>
    /\ lastSend' = NoSend
    /\ UNCHANGED <<hashmap, mMutex, mStatus, mStopping, dec, boardOut, owed, op, batch, receive, idx, tries, stale, calls, infos, ev,
                   counters, first, rejected>>

\* sendSync(packet, maxRetries, timeout), up to its first round trip: the
\* attempts are round trips of the one packet, as sendSerialFrame makes them.
sendSync(t, packet, maxRetries) ==
    /\ pc[t] = "idle"
    /\ nSends < quota.sends
    /\ nSends' = nSends + 1
    /\ op' = Upd(op, t, "sendSync")
    /\ batch' = Upd(batch, t, <<WithId(packet, 0)>>)
    /\ tries' = Upd(tries, t, [max |-> maxRetries, ends |-> <<>>])
    /\ pc' = Upd(pc, t, "sp_begin")
    /\ UNCHANGED <<shared, line, receive, idx, ret, calls, infos, ev, stale, txCount, nextId, nReg, nStops, quota,
                   history>>

\* How the attempt that just ended went.
AttemptEnd(t) == [ret |-> ret[t], status |-> mStatus, timeout |-> "timeout" \in ev[t]]

\* sendSync after an attempt: it returns at the first success and after
\* maxRetries attempts, and makes the next attempt otherwise.
sendSyncNext(t) ==
    /\ pc[t] = "ss_next"
    /\ tries' = Upd(tries, t, [tries[t] EXCEPT !.ends = Append(@, AttemptEnd(t))])
    /\ IF ret[t] \/ Len(tries[t].ends) + 1 >= tries[t].max
       THEN /\ pc' = Upd(pc, t, "done")
            /\ UNCHANGED <<receive, idx, ret, calls, infos, ev>>
       ELSE /\ pc' = Upd(pc, t, "sp_begin")
            /\ receive' = Upd(receive, t, <<>>)
            /\ idx' = Upd(idx, t, 0)
            /\ ret' = Upd(ret, t, FALSE)
            /\ calls' = Upd(calls, t, <<>>)
            /\ infos' = Upd(infos, t, <<>>)
            /\ ev' = Upd(ev, t, {})
    /\ UNCHANGED <<shared, line, op, batch, stale, counters, history>>

\* The caller has the result; its frame is popped.
Return(t) ==
    /\ pc[t] = "done"
    /\ pc' = Upd(pc, t, "idle")
    /\ op' = Upd(op, t, "none")
    /\ batch' = Upd(batch, t, <<>>)
    /\ receive' = Upd(receive, t, <<>>)
    /\ idx' = Upd(idx, t, 0)
    /\ ret' = Upd(ret, t, FALSE)
    /\ calls' = Upd(calls, t, <<>>)
    /\ infos' = Upd(infos, t, <<>>)
    /\ tries' = Upd(tries, t, NoTries)
    /\ stale' = Upd(stale, t, NoStale)
    /\ ev' = Upd(ev, t, {})
    /\ UNCHANGED <<shared, line, counters, history>>

\* ------------------------------------------------------------- round trip
WriteOutcomes == {"ok", "SerialException", "IOException", "short"}

\* What a call remembers of its write, for the properties.
WriteEvent(w) ==
    CASE w = "ok" -> "written"
      [] w = "SerialException" -> "write_SerialException"
      [] w = "IOException" -> "write_IOException"
      [] OTHER -> "write_short"

\* serial_controller::writePacket: the status it leaves for each outcome of
\* mSerial.write
writePacket(w) ==
    CASE w = "SerialException" -> SERIAL_EXCEPTION
      [] w = "IOException" -> SERIAL_IOEXCEPTION
      [] OTHER -> mStatus

\* serial_controller::sendSerialPacket up to the call of readPacket: the test
\* of isOpen and writePacket, whose result is not looked at
sendSerialPacket(t) ==
    /\ pc[t] = "sp_begin"
    /\ IF isOpen
       THEN \E w \in WriteOutcomes :
            /\ mStatus' = writePacket(w)
            /\ ev' = Upd(ev, t, ev[t] \cup {WriteEvent(w)})
            /\ txCount' = IF w = "ok"
                          THEN [i \in Ids |-> IF i \in BatchIds(batch[t])
                                              THEN Min(txCount[i] + 1, 2) ELSE txCount[i]]
                          ELSE txCount
            /\ owed' = IF w = "ok" THEN owed + 1 ELSE owed
            /\ stale' = Upd(stale, t, IF quota.watch
                                      THEN [len |-> Len(rxBuf), dec |-> dec # DecIdle]
                                      ELSE NoStale)
            /\ pc' = Upd(pc, t, "rp_check")
            /\ UNCHANGED receive
       ELSE /\ receive' = Upd(receive, t, <<>>)
            /\ pc' = Upd(pc, t, "pp_begin")
            /\ UNCHANGED <<mStatus, ev, txCount, owed, stale>>
    /\ UNCHANGED <<hashmap, list_send, mMutex, mStopping, isOpen, rxBuf, dec, boardOut,
                   op, batch, idx, tries, ret, calls, infos, nextId, nReg, nSends, nStops, quota, history>>

\* serial_controller::readPacket: the test of mStopping at the top of the loop
readPacketCheck(t) ==
    /\ pc[t] = "rp_check"
    /\ IF mStopping
       THEN /\ receive' = Upd(receive, t, <<>>)
            /\ ev' = Upd(ev, t, ev[t] \cup {"stopped"})
            /\ pc' = Upd(pc, t, "pp_begin")
       ELSE /\ pc' = Upd(pc, t, "rp_wait")
            /\ UNCHANGED <<receive, ev>>
    /\ UNCHANGED <<shared, line, op, batch, idx, tries, stale, ret, calls, infos, counters, history>>

ReadOutcomes == {"ok", "SerialException", "IOException"}

\* readPacket: waitReadable, read and the loop over the bytes read
readPacket(t) ==
    /\ pc[t] = "rp_wait"
    /\ IF rxBuf = <<>>
       THEN \* nothing arrives within mTimeout
            /\ mStatus' = SERIAL_TIMEOUT
            /\ receive' = Upd(receive, t, <<>>)
            /\ ev' = Upd(ev, t, ev[t] \cup {"timeout"})
            /\ stale' = Upd(stale, t, NoStale)
            /\ pc' = Upd(pc, t, "pp_begin")
            /\ UNCHANGED <<rxBuf, dec>>
       ELSE \E r \in ReadOutcomes :
            IF r = "ok"
            THEN LET f == FeedChunk(dec, rxBuf)
                     old == FromStale(stale[t], FrameStart(dec, rxBuf, 1, 0))
                 IN  /\ rxBuf' = <<>>
                     /\ dec' = f.dec
                     /\ receive' = Upd(receive, t, f.frame)
                     /\ ev' = Upd(ev, t, ev[t] \cup (IF f.done THEN {"frame"} ELSE {})
                                               \cup (IF f.done /\ old THEN {"stale_frame"} ELSE {}))
                     /\ stale' = Upd(stale, t, [len |-> 0, dec |-> ~f.done /\ f.dec # DecIdle /\ old])
                     /\ pc' = Upd(pc, t, IF f.done THEN "pp_begin" ELSE "rp_check")
                     /\ UNCHANGED mStatus
            ELSE /\ mStatus' = IF r = "SerialException" THEN SERIAL_EXCEPTION ELSE SERIAL_IOEXCEPTION
                 /\ receive' = Upd(receive, t, <<>>)
                 /\ ev' = Upd(ev, t, ev[t] \cup {"rfail"})
                 /\ stale' = Upd(stale, t, NoStale)
                 /\ pc' = Upd(pc, t, "pp_begin")
                 /\ UNCHANGED <<rxBuf, dec>>
    /\ UNCHANGED <<hashmap, list_send, mMutex, mStopping, isOpen, boardOut, owed,
                   op, batch, idx, tries, ret, calls, infos, counters, history>>

\* parse_packet that takes a packet of length zero for a reply.
parse_packetAccepts(t) ==
    /\ pc[t] = "pp_begin"
    /\ IF Len(receive[t]) > 0
       THEN /\ idx' = Upd(idx, t, 0)
            /\ pc' = Upd(pc, t, "pp_loop")
            /\ UNCHANGED <<mStatus, ret>>
       ELSE /\ mStatus' = SERIAL_OK
            /\ ret' = Upd(ret, t, TRUE)
            /\ pc' = Upd(pc, t, Route(t))
            /\ UNCHANGED idx
    /\ UNCHANGED <<hashmap, list_send, mMutex, mStopping, isOpen, line, op, batch, receive, calls, infos, tries, stale, ev,
                   counters, history>>

\* serial_controller::parse_packet: the test of receive.length
parse_packet(t) ==
    /\ pc[t] = "pp_begin"
    /\ IF Len(receive[t]) > 0
       THEN /\ idx' = Upd(idx, t, 0)
            /\ pc' = Upd(pc, t, "pp_loop")
            /\ UNCHANGED <<mStatus, ret>>
       ELSE /\ mStatus' = SERIAL_EMPTY
            /\ ret' = Upd(ret, t, FALSE)
            /\ pc' = Upd(pc, t, Route(t))
            /\ UNCHANGED idx
    /\ UNCHANGED <<hashmap, list_send, mMutex, mStopping, isOpen, line, op, batch, receive, calls, infos, tries, stale, ev,
                   counters, history>>

\* The values byte k of info may hold after memcpy(&info, &buffer[i], buffer[i]):
\* the byte of the frame when it was copied from inside the frame, any value
\* when it was not copied or was copied from beyond the frame.
InfoByte(buf, i, k) ==
    IF k < buf[i + 1] /\ i + k < Len(buf) THEN {buf[i + k + 1]} ELSE IndetBytes

\* Byte k of info as the walk is recorded: the byte of the frame, or
\* Indeterminate when memcpy did not take it from inside the frame.
InfoField(buf, i, k) ==
    IF k < buf[i + 1] /\ i + k < Len(buf) THEN buf[i + k + 1] ELSE Indeterminate

\* A payload that takes every byte up to the end of the frame.
InfoMessageToEnd(buf, i) == SubSeq(buf, i + LNG_HEAD_INFORMATION_PACKET + 1, Len(buf))

\* The payload bytes memcpy took from inside the frame.
InfoMessage(buf, i) == SubSeq(buf, i + LNG_HEAD_INFORMATION_PACKET + 1, Min(i + buf[i + 1], Len(buf)))

\* The handler called with the command where the option goes.
InvocationSwapped(h, o, ty, c, m) == [handler |-> h, option |-> c, type |-> ty, command |-> o, message |-> m]

\* The handler call of one sub-packet: callback(info.option, info.type,
\* info.command, info.message).
Invocation(h, o, ty, c, m) == [handler |-> h, option |-> o, type |-> ty, command |-> c, message |-> m]

\* A dispatch that looks the category up without the test for category 0.
DispatchesZero(ty) == Lookup(ty) # NoHandler

\* parse_packet: the sub-packet goes to a handler when its category is not 0
\* and is in hashmap.
Dispatches(ty) == ty # 0 /\ Lookup(ty) # NoHandler

\* memcpy(&info, &buffer[i], buffer[i]) reads at or beyond receive.length.
ReadsPast(buf, i) == i + buf[i + 1] > Len(buf)

\* parse_packet: the test of the loop over the sub-packets, and the return
\* after the loop
parse_packet_loop(t) ==
    /\ pc[t] = "pp_loop"
    /\ IF idx[t] < Len(receive[t])
       THEN /\ pc' = Upd(pc, t, "pp_body")
            /\ UNCHANGED <<mStatus, ret>>
       ELSE /\ mStatus' = SERIAL_OK
            /\ ret' = Upd(ret, t, TRUE)
            /\ pc' = Upd(pc, t, Route(t))
    /\ UNCHANGED <<hashmap, list_send, mMutex, mStopping, isOpen, line, op, batch, receive, idx, calls, infos,
                   tries, stale, ev, counters, history>>

\* parse_packet: the body of the loop for one sub-packet, and the advance by
\* its self-length
parse_packet_body(t) ==
    /\ pc[t] = "pp_body"
    /\ \E ty \in InfoByte(receive[t], idx[t], 1),
          o \in InfoByte(receive[t], idx[t], 2),
          c \in InfoByte(receive[t], idx[t], 3) :
         /\ calls' = IF Dispatches(ty) /\ Len(calls[t]) < MaxCalls
                     THEN Upd(calls, t, Append(calls[t],
                              Invocation(Lookup(ty), o, ty, c, InfoMessage(receive[t], idx[t]))))
                     ELSE calls
         /\ infos' = IF Len(infos[t]) < MaxInfos
                     THEN Upd(infos, t, Append(infos[t],
                              Packet(InfoField(receive[t], idx[t], 0), InfoField(receive[t], idx[t], 1),
                                     InfoField(receive[t], idx[t], 2), InfoField(receive[t], idx[t], 3),
                                     InfoMessage(receive[t], idx[t]))))
                     ELSE infos
         /\ ev' = Upd(ev, t, ev[t] \cup (IF ty = 0 THEN {"Return alive message"} ELSE {})
                                   \cup (IF ReadsPast(receive[t], idx[t]) THEN {"overread"} ELSE {}))
    /\ idx' = Upd(idx, t, idx[t] + receive[t][idx[t] + 1])
    /\ pc' = Upd(pc, t, "pp_loop")
    /\ UNCHANGED <<hashmap, list_send, mMutex, mStatus, mStopping, isOpen, line, op, batch, receive, ret,
                   tries, stale, counters, history>>

\* ------------------------------------------------------------ environment
\* The sub-packets a board puts in a reply.
ReplySubs ==
    { CREATE_PACKET_RESPONSE(0, 0, 65),
      Packet(5, 1, 65, 5, <<7>>),
      CREATE_PACKET_RESPONSE(6, 2, 66) }

\* Replies of well-formed sub-packets, and the zero-length reply.
ReplyFrames ==
    {<<>>} \cup {Flatten(<<a>>) : a \in ReplySubs}
           \cup {Flatten(<<a, b>>) : a \in ReplySubs, b \in ReplySubs}

\* The descriptors of the batches a board encodes.
Descriptors == ReplySubs \cup SendPackets

\* The batches of 1..MaxBatch descriptors that fit in one frame.
Batches ==
    {b \in UNION {[1..n -> Descriptors] : n \in 1..MaxBatch} : encoder(b) = Len(b)}

\* Replies whose self-lengths are not those of their sub-packets: a
\* self-length of zero, alone and after a sub-packet, and a self-length that
\* runs past the end of the frame, alone and after a sub-packet.
BadFrames ==
    { <<0, 1, 65, 5>>,
      <<4, 1, 65, 5, 0, 2, 66, 6>>,
      <<9, 2, 66, 6>>,
      <<4, 1, 65, 5, 6, 2, 66, 6>> }

\* The replies of a board that answers with encoded batches.
EncodedFrames == {encoderBuffer(b) : b \in Batches}

\* The replies of the runs with two calling threads.
FewFrames == {<<>>, Flatten(<<CREATE_PACKET_RESPONSE(6, 2, 66)>>)}

Deliver(bytes) == rxBuf' = IF isOpen THEN rxBuf \o bytes ELSE rxBuf

\* The board answers a request it received, at once or in two parts.
BoardReply(frames, splits) ==
    /\ owed > 0
    /\ boardOut = <<>>
    /\ owed' = owed - 1
    /\ \E f \in frames, whole \in splits :
         LET w == build_pkg(f)
         IN  IF whole
             THEN Deliver(w) /\ boardOut' = <<>>
             ELSE /\ Deliver(SubSeq(w, 1, Min(ChunkLen, Len(w))))
                  /\ boardOut' = SubSeq(w, Min(ChunkLen, Len(w)) + 1, Len(w))
    /\ UNCHANGED <<shared, dec, local, counters, history>>

BoardRest ==
    /\ boardOut # <<>>
    /\ Deliver(boardOut)
    /\ boardOut' = <<>>
    /\ UNCHANGED <<shared, dec, owed, local, counters, history>>

\* A byte that is no frame start.
NoiseByte == 0

\* The line delivers a byte that belongs to no frame, within mTimeout of the
\* bytes before it.
LineNoise ==
    /\ isOpen
    /\ rxBuf = <<>>
    /\ rxBuf' = <<NoiseByte>>
    /\ UNCHANGED <<shared, dec, boardOut, owed, local, counters, history>>

\* ---------------------------------------------------------- specifications
\* The calls on the pending queue.
QueueCall(t) ==
    \/ \E p \in SendPackets : addFrame(t, p)
    \/ \E p \in SendPackets, q \in SendPackets : addFrameVector(t, p, q)
    \/ resetList(t)
    \/ sendList(t)

\* The calls on the connection.
LinkCall(t) ==
    \/ isAlive(t)
    \/ start(t)
    \/ stop(t)

\* The steps inside a call on the pending queue.
QueueStep(t) ==
    \/ addFramePush(t)
    \/ sendListFinish(t)

\* The steps inside start and stop.
LinkStep(t) ==
    \/ startProbe(t)
    \/ stopClear(t)

\* The steps of a round trip, and the return of any call.
TripStep(t) ==
    \/ sendSerialPacket(t)
    \/ readPacketCheck(t)
    \/ readPacket(t)
    \/ parse_packet(t)
    \/ parse_packet_loop(t)
    \/ parse_packet_body(t)
    \/ Return(t)

Step(t) == QueueStep(t) \/ LinkStep(t) \/ TripStep(t)

\* One calling thread that queues and sends; the board answers with FewFrames.
Next ==
    \/ QueueCall(T1)
    \/ LinkCall(T1)
    \/ Step(T1)
    \/ BoardReply(FewFrames, BOOLEAN)
    \/ BoardRest

Spec == Init /\ [][Next]_vars

\* The same from the state after start() returned true.
InitRetry == Quiet(TRUE, {FALSE}, Quota(MaxPackets, 0, RetrySends, MaxStops))

SpecRetry == InitRetry /\ [][Next]_vars

\* One calling thread that registers handlers and has replies dispatched; the
\* board answers with ReplyFrames.
NextDispatch ==
    \/ \E cb \in Handlers, ty \in Types : addCallback(T1, cb, ty)
    \/ LinkCall(T1)
    \/ LinkStep(T1)
    \/ TripStep(T1)
    \/ BoardReply(ReplyFrames, {TRUE})

\* The state after start() returned true.
InitDispatch == Quiet(TRUE, {FALSE}, Quota(0, MaxReg, DispatchSends, MaxStops))

SpecDispatch == InitDispatch /\ [][NextDispatch]_vars

\* Two calling threads.
NextConc ==
    \/ \E t \in Threads : QueueCall(t) \/ LinkCall(t) \/ Step(t)
    \/ BoardReply(FewFrames, {TRUE})

\* The state after start() returned true.
InitConc == Quiet(TRUE, {FALSE}, Quota(ConcPackets, 0, ConcSends, MaxStops))

SpecConc == InitConc /\ [][NextConc]_vars

\* One calling thread that sends single packets with sendSync.
NextSync ==
    \/ \E p \in SendPackets, n \in 1..MaxRetries : sendSync(T1, p, n)
    \/ sendSyncNext(T1)
    \/ TripStep(T1)
    \/ BoardReply(FewFrames, {TRUE})

\* The state after start() returned true.
InitSync == Quiet(TRUE, {FALSE}, Quota(0, 0, SyncSends, 0))

SpecSync == InitSync /\ [][NextSync]_vars

\* One calling thread that probes the board, which answers with
\* EncodedFrames.
NextDecode ==
    \/ isAlive(T1)
    \/ TripStep(T1)
    \/ BoardReply(EncodedFrames, {TRUE})

SpecDecode == InitDispatch /\ [][NextDecode]_vars

\* One calling thread that registers a handler and probes the board, which
\* answers with BadFrames. A thread inside the loop of parse_packet goes on
\* with it.
NextFraming ==
    \/ \E cb \in Handlers, ty \in Types : addCallback(T1, cb, ty)
    \/ isAlive(T1)
    \/ TripStep(T1)
    \/ BoardReply(BadFrames, {TRUE})

\* The state after start() returned true.
InitFraming == Quiet(TRUE, {FALSE}, Quota(0, FramingReg, DispatchSends, 0))

SpecFraming ==
    /\ InitFraming
    /\ [][NextFraming]_vars
    /\ WF_vars(parse_packet_loop(T1))
    /\ WF_vars(parse_packet_body(T1))

\* One calling thread that probes a board on a noisy line. A thread inside
\* readPacket goes on with it.
NextNoise ==
    \/ isAlive(T1)
    \/ TripStep(T1)
    \/ BoardReply(FewFrames, {TRUE})
    \/ LineNoise

SpecNoise ==
    /\ InitRetry
    /\ [][NextNoise]_vars
    /\ WF_vars(readPacketCheck(T1))
    /\ WF_vars(readPacket(T1))

\* One calling thread that queues and sends on an open port, and records at
\* each write what it has not read.
NextStale ==
    \/ QueueCall(T1)
    \/ QueueStep(T1)
    \/ TripStep(T1)
    \/ BoardReply(FewFrames, BOOLEAN)
    \/ BoardRest

\* The state after start() returned true.
InitStale == Quiet(TRUE, {FALSE}, [Quota(MaxPackets, 0, RetrySends, MaxStops) EXCEPT !.watch = TRUE])

SpecStale == InitStale /\ [][NextStale]_vars

\* Two calling threads: one registers a handler and sends the queue, the
\* other appends to it; the board answers with FewFrames.
NextLock ==
    \/ \E cb \in Handlers, ty \in Types : addCallback(T1, cb, ty)
    \/ sendList(T1)
    \/ sendListFinish(T1)
    \/ TripStep(T1)
    \/ \E p \in SendPackets : addFrame(T2, p)
    \/ addFramePush(T2)
    \/ Return(T2)
    \/ BoardReply(FewFrames, {TRUE})

\* The state after start() returned true.
InitLock == Quiet(TRUE, {FALSE}, Quota(LockPackets, FramingReg, LockSends, 0))

SpecLock == InitLock /\ [][NextLock]_vars

\* ------------------------------------------------------------- properties
TripOps == {"sendList", "isAlive", "start"}

\* A call of t has finished and its result is with the caller.
Finished(t, ops) == pc[t] = "done" /\ op[t] \in ops

\* C1: a round trip whose wait timed out (waitReadable reported not readable
\* before a frame was complete) returns failure to the caller and leaves
\* getStatus() equal to TIMEOUT.
C1_TimeoutLeavesStatusTimeout ==
    \A t \in Threads :
        Finished(t, TripOps) /\ "timeout" \in ev[t]
            => ret[t] = FALSE /\ mStatus = SERIAL_TIMEOUT

\* C2: a sendList whose batch does not fit in one frame returns failure, with
\* status BUFFER_FULL, and writes nothing to the transport.
C2_BufferFullReportsFailure ==
    \A t \in Threads :
        Finished(t, {"sendList"}) /\ "full" \in ev[t]
            => /\ ret[t] = FALSE
               /\ mStatus = SERIAL_BUFFER_FULL
               /\ ev[t] = {"full"}

\* C3: after a sendList rejected because the batch does not fit in one frame,
\* the pending queue holds the packets it held before the call, in the same
\* order.
C3_BufferFullKeepsQueue ==
    \A t \in Threads :
        Finished(t, {"sendList"}) /\ "full" \in ev[t] => list_send = batch[t]

WriteFailures == {"write_SerialException", "write_IOException", "write_short"}

\* C8: a round trip whose transport write failed returns failure and leaves
\* getStatus() reporting the transport error.
C8_WriteFailureKeepsStatus ==
    \A t \in Threads :
        Finished(t, TripOps) /\ ev[t] \cap WriteFailures # {}
            => /\ ret[t] = FALSE
               /\ mStatus \in {SERIAL_EXCEPTION, SERIAL_IOEXCEPTION}
               /\ "write_SerialException" \in ev[t] => mStatus = SERIAL_EXCEPTION
               /\ "write_IOException" \in ev[t] => mStatus = SERIAL_IOEXCEPTION

\* C4: addCallback for a category that is already bound returns failure and
\* leaves the first handler bound, and every dispatch of that category calls
\* the first handler.
C4_FirstHandlerStaysBound ==
    /\ \A ty \in Types : hashmap[ty] = first[ty]
    /\ \A t \in Threads :
         /\ Finished(t, {"addCallback"}) => (ret[t] = FALSE <=> "duplicate" \in ev[t])
         /\ \A k \in 1..Len(calls[t]) : calls[t][k].handler = first[calls[t][k].type]

\* A handler was refused for a category and a later reply of that category
\* was dispatched.
C4_Witness ==
    \E t \in Threads :
        /\ Finished(t, TripOps)
        /\ \E k \in 1..Len(calls[t]), h \in Handlers :
             /\ h # calls[t][k].handler
             /\ <<calls[t][k].type, h>> \in rejected

\* The sub-packets of a frame, read off its bytes.
RECURSIVE SubPackets(_)
SubPackets(buf) ==
    IF buf = <<>> THEN <<>>
    ELSE <<[length |-> buf[1], type |-> buf[2], option |-> buf[3], command |-> buf[4],
            message |-> SubSeq(buf, 5, buf[1])]>>
         \o SubPackets(SubSeq(buf, buf[1] + 1, Len(buf)))

\* A frame is well formed when every self-length covers the four bytes of the
\* head and ends inside the frame.
RECURSIVE WellFormed(_)
WellFormed(buf) ==
    \/ buf = <<>>
    \/ /\ Len(buf) >= LNG_HEAD_INFORMATION_PACKET
       /\ buf[1] >= LNG_HEAD_INFORMATION_PACKET
       /\ buf[1] <= Len(buf)
       /\ WellFormed(SubSeq(buf, buf[1] + 1, Len(buf)))

\* The handler calls a frame is due: one per sub-packet of a bound category
\* other than 0, in the order of the frame.
RECURSIVE DueCalls(_)
DueCalls(subs) ==
    IF subs = <<>> THEN <<>>
    ELSE LET p == Head(subs)
         IN  (IF p.type # 0 /\ Lookup(p.type) # NoHandler
              THEN <<[handler |-> hashmap[p.type], option |-> p.option, type |-> p.type,
                      command |-> p.command, message |-> p.message]>>
              ELSE <<>>) \o DueCalls(Tail(subs))

\* The sub-packets of categories that are neither 0 nor bound.
Unknown(subs) == SelectSeq(subs, LAMBDA p : p.type # 0 /\ Lookup(p.type) = NoHandler)

\* t finished a round trip that received the non-empty well-formed frame
\* receive[t].
Dispatched(t) ==
    /\ Finished(t, TripOps)
    /\ "frame" \in ev[t]
    /\ receive[t] # <<>>
    /\ WellFormed(receive[t])

\* C9: a reply of well-formed sub-packets whose categories are all bound
\* (category 0, the liveness probe, has no dispatch) makes the round trip
\* return success with status OK and calls the handler of each sub-packet
\* once, in the order of the frame, with its option, category, command and
\* payload.
C9_DispatchInOrder ==
    \A t \in Threads :
        Dispatched(t) /\ Unknown(SubPackets(receive[t])) = <<>>
            => /\ ret[t] = TRUE
               /\ mStatus = SERIAL_OK
               /\ calls[t] = DueCalls(SubPackets(receive[t]))

\* A reply of two sub-packets of two bound categories was dispatched.
C9_Witness ==
    \E t \in Threads :
        /\ Dispatched(t)
        /\ Unknown(SubPackets(receive[t])) = <<>>
        /\ Len(calls[t]) = 2
        /\ calls[t][1].type # calls[t][2].type
        /\ calls[t][1].message # calls[t][2].message

\* C10: a reply with one sub-packet of an unbound category among sub-packets
\* of bound categories has every bound handler called once and exactly one
\* UnknownType reported.
C10_UnknownReportedOnce ==
    \A t \in Threads :
        (/\ Dispatched(t)
         /\ Len(Unknown(SubPackets(receive[t]))) = 1
         /\ DueCalls(SubPackets(receive[t])) # <<>>)
            => /\ calls[t] = DueCalls(SubPackets(receive[t]))
               /\ Cardinality(ev[t] \cap {"UnknownType"}) = 1

\* A round trip of t is outstanding: its request is written and its reply is
\* awaited.
Outstanding(t) == pc[t] \in {"rp_check", "rp_wait"}

\* C5: at most one round trip is outstanding at any time, whatever entry
\* points (sendList, isAlive, start) concurrent threads call.
C5_OneRoundTripAtATime == Cardinality({t \in Threads : Outstanding(t)}) <= 1

\* C6: a packet appended concurrently with a sendList is transmitted in
\* exactly one batch: never twice, and never removed from the queue by a
\* sendList without having been transmitted.
C6_TransmittedExactlyOnce ==
    /\ \A i \in Ids : txCount[i] <= 1
    /\ \A t \in Threads :
         Finished(t, {"sendList"}) /\ ret[t] = TRUE
            => \A i \in BatchIds(batch[t]) : txCount[i] = 1

OnlyAlive(t) ==
    /\ Len(SubPackets(receive[t])) = 1
    /\ SubPackets(receive[t])[1].type = 0

\* C11: a sub-packet of category 0 never has a handler called, also when a
\* handler is bound to category 0, and a reply that consists of one
\* sub-packet of category 0 makes the round trip return success.
C11_CategoryZeroNeverDispatched ==
    \A t \in Threads :
        /\ \A k \in 1..Len(calls[t]) : calls[t][k].type # 0
        /\ Dispatched(t) /\ OnlyAlive(t) => ret[t] = TRUE /\ calls[t] = <<>>

\* A handler is bound to category 0 and a reply of one sub-packet of
\* category 0 was walked.
C11_Witness ==
    \E t \in Threads :
        /\ hashmap[0] # NoHandler
        /\ Dispatched(t)
        /\ OnlyAlive(t)
        /\ "Return alive message" \in ev[t]

\* C12: a round trip whose reply is a frame of length zero returns failure
\* with status EMPTY, and status EMPTY is never what a round trip whose wait
\* timed out leaves.
C12_EmptyOnlyOnZeroLengthReply ==
    \A t \in Threads :
        Finished(t, TripOps)
            => /\ "frame" \in ev[t] /\ receive[t] = <<>>
                    => ret[t] = FALSE /\ mStatus = SERIAL_EMPTY
               /\ "timeout" \in ev[t] => mStatus # SERIAL_EMPTY

\* A sendList of t has read the queue and has not yet recorded its result.
Draining(t) == op[t] = "sendList" /\ pc[t] \notin {"idle", "done"}

C14_StartFailureLeavesClosed ==
    \A t \in Threads :
        Finished(t, {"start"}) /\ "threw" \notin ev[t]
            => /\ ret[t] = TRUE => isOpen /\ "frame" \in ev[t] /\ mStatus = SERIAL_OK
               /\ ret[t] = FALSE => ~isOpen

\* The attempts of the sendSync of t that have ended.
Ends(t) == tries[t].ends

Decoded(t, b) ==
    /\ Finished(t, TripOps)
    /\ "frame" \in ev[t]
    /\ receive[t] = encoderBuffer(b)

\* C16: for every batch of 1..MaxBatch valid descriptors that fits in one
\* frame, the walk of parse_packet over the buffer encoder made of the batch
\* yields the descriptors of the batch, with their fields, in their order.
C16_DecodeOfEncodeIsBatch ==
    \A t \in Threads, b \in Batches : Decoded(t, b) => infos[t] = b /\ ret[t] = TRUE

\* A batch of two different descriptors, one of them with a payload, was
\* encoded and walked.
C16_Witness ==
    \E t \in Threads, b \in Batches :
        /\ Decoded(t, b)
        /\ Len(b) = 2
        /\ b[1] # b[2]
        /\ b[2].message # <<>>
        /\ infos[t] = b

\* C17: the walk over a received frame never reads a buffer position at or
\* beyond the length of the frame, whatever the self-length bytes hold.
C17_NeverReadsPastFrame == \A t \in Threads : "overread" \notin ev[t]

\* t is inside the loop of parse_packet.
Walking(t) == pc[t] \in {"pp_loop", "pp_body"}

\* C18: the walk over a received frame ends, for every frame; a self-length
\* of zero does not keep the loop at the same offset forever.
C18_DecodeTerminates == \A t \in Threads : Walking(t) ~> ~Walking(t)

\* A sub-packet of the frame has a self-length of zero or one that runs past
\* the end of the frame.
RECURSIVE Malformed(_)
Malformed(buf) ==
    /\ buf # <<>>
    /\ \/ buf[1] = 0
       \/ buf[1] > Len(buf)
       \/ Malformed(SubSeq(buf, buf[1] + 1, Len(buf)))

\* C19: a received frame with a malformed sub-packet has no handler called
\* for any of its sub-packets, the well-formed ones before the malformed one
\* included.
C19_FailedDecodeYieldsNothing ==
    \A t \in Threads : Malformed(receive[t]) => calls[t] = <<>>

\* C20: every round trip ends: when no frame gets complete the wait ends
\* with a timeout, also when the line keeps delivering bytes that complete
\* no frame.
C20_RoundTripEnds == \A t \in Threads : Outstanding(t) ~> ~Outstanding(t)

\* t is inside a blocking call of the port: waitReadable or read.
Blocked(t) == pc[t] = "rp_wait"

\* C21: mMutex is never held while a blocking call of the port is in
\* progress: whenever a thread is inside such a call, no thread holds mMutex.
C21_NoLockAcrossTransport ==
    \A t \in Threads : Blocked(t) => mMutex = NoThread

\* C22: the stop flag is looked at after each blocking read as well as
\* before it: a read that returns once stop() has set the flag hands no frame
\* to parse_packet, so the round trip returns failure and no handler is
\* called for the bytes read after stop().
C22_StopAbandonsRoundTrip ==
    [][\A t \in Threads :
          mStopping /\ Blocked(t) /\ pc'[t] = "pp_begin" => receive'[t] = <<>>]_vars

\* C23: every reply frame a round trip hands to parse_packet was decoded from
\* bytes that arrived after the request of that round trip was written: no
\* frame is read that began with a byte left unread, or left in the decoder,
\* by an earlier round trip.
C23_NoStaleReply == \A t \in Threads : "stale_frame" \notin ev[t]

\* A call of t is at, or inside, its access to list_send: between lock and
\* unlock in addFrame and sendList, or before list_send.clear() in stop.
AtQueue(t) == mMutex = t \/ pc[t] = "stop_clear"

\* C24: every access to the pending queue is made holding mMutex, so no two
\* threads are at the queue at the same time: stop() never clears it while
\* another thread is inside addFrame or sendList.
C24_QueueAccessExclusive ==
    \A t \in Threads :
        AtQueue(t) => mMutex = t /\ \A u \in Threads \ {t} : ~AtQueue(u)

\* C25: sendList leaves the pending queue empty exactly when it returns true;
\* when it returns false the queue holds the packets it held when sendList
\* was called, in the same order.
C25_SendListKeepsQueueOnFailure ==
    [][\A t \in Threads :
          pc[t] = "sl_finish" /\ pc'[t] = "done" =>
              IF ret[t] THEN list_send' = <<>>
                        ELSE list_send' = batch[t] /\ batch[t] # <<>>]_vars

\* t is inside sendList and a handler was called for the reply.
Dispatching(t) == op[t] = "sendList" /\ calls[t] # <<>> /\ pc[t] # "done"

\* u is inside addFrame or sendList, past the lock.
PastLock(u) == op[u] \in {"addFrame", "sendList"} /\ pc[u] \notin {"idle", "done"}

\* C26: from the call of a handler in sendList until sendList unlocks, the
\* dispatching thread holds mMutex and no other thread is past the lock of
\* addFrame or sendList.
C26_DispatchHoldsLock ==
    \A t \in Threads :
        Dispatching(t) => mMutex = t /\ \A u \in Threads \ {t} : ~PastLock(u)

\* A handler was called in sendList while another thread has a packet to
\* append and only the lock keeps its addFrame from starting.
C26_Witness ==
    \E t \in Threads :
        /\ Dispatching(t)
        /\ \E u \in Threads \ {t} : pc[u] = "idle" /\ nextId <= quota.packets
====
